---- MODULE Spec2Model ----
(***************************************************************************)
(* pyble: the node engine (pyble/core/node.py) and the block store's       *)
(* identify_block (pyble/core/store.py).                                   *)
(*                                                                         *)
(* Python values are records [kind, id, b]: None, a reference to a Node    *)
(* instance (an index of the heap), a bytes object, or a value of any      *)
(* other type.  A byte string is a sequence of bytes.  A byte is a         *)
(* sequence too: <<v>> with v in 0..255 is the byte v, and                 *)
(* <<256 + i, m, x>> is the i-th byte of sha512(x) with the bits of the    *)
(* mask m flipped (x is carried by byte 1 only).  sha512 is idealised as   *)
(* collision free: two digests are equal iff their inputs are.             *)
(***************************************************************************)
EXTENDS Integers, Sequences, FiniteSets, TLC

\* node.py:10  DIGEST_SIZE = sha512(b'').digest_size
DIGEST_SIZE == 64
\* node.py:11  STORY_SIZE = DIGEST_SIZE * (2 ** 4 - 2)
STORY_SIZE == DIGEST_SIZE * (2^4 - 2)
\* node.py:12  TOTAL_SIZE = STORY_SIZE + 2*DIGEST_SIZE
TOTAL_SIZE == STORY_SIZE + 2 * DIGEST_SIZE

-----------------------------------------------------------------------------
(* Python values *)

None == [kind |-> "none", id |-> 0, b |-> <<>>]
NodeRef(i) == [kind |-> "node", id |-> i, b |-> <<>>]
Bytes(s) == [kind |-> "bytes", id |-> 0, b |-> s]
\* a value that is neither None, a Node nor bytes (a str, an int, ...)
Other == [kind |-> "other", id |-> 0, b |-> <<>>]

-----------------------------------------------------------------------------
(* bytes *)

Plain(v) == <<v>>
ZeroByte == Plain(0)
IsPlain(x) == Len(x) = 1
Zeros(n) == [i \in 1..n |-> ZeroByte]

\* v with bit k (0..7) inverted
XorBit(v, k) == IF (v \div (2^k)) % 2 = 1 THEN v - 2^k ELSE v + 2^k

\* the byte x with bit k inverted
FlipByte(x, k) == IF IsPlain(x) THEN Plain(XorBit(x[1], k))
                  ELSE <<x[1], XorBit(x[2], k), x[3]>>

\* the byte string s with bit k of the byte at offset off (from 0) inverted
FlipBit(s, off, k) == [i \in 1..Len(s) |-> IF i = off + 1 THEN FlipByte(s[i], k) ELSE s[i]]

\* concatenation of the sequences ss[lo..hi]
RECURSIVE Flatten(_, _, _)
Flatten(ss, lo, hi) ==
    IF lo > hi THEN <<>>
    ELSE IF lo = hi THEN ss[lo]
    ELSE LET mid == (lo + hi) \div 2
         IN  Flatten(ss, lo, mid) \o Flatten(ss, mid + 1, hi)

\* node.py:17  def q_hash(b): return sha512(b).digest()
q_hash(s) == [i \in 1..DIGEST_SIZE |-> <<256 + i, 0, IF i = 1 THEN s ELSE <<>> >>]

-----------------------------------------------------------------------------
(* str.encode('utf-8') and bytes.decode('utf-8'); a str is a sequence of    *)
(* code points                                                              *)

Utf8Char(c) ==
    IF c < 128 THEN <<Plain(c)>>
    ELSE IF c < 2048 THEN <<Plain(192 + (c \div 64)), Plain(128 + (c % 64))>>
    ELSE IF c < 65536 THEN <<Plain(224 + (c \div 4096)), Plain(128 + ((c \div 64) % 64)),
                             Plain(128 + (c % 64))>>
    ELSE <<Plain(240 + (c \div 262144)), Plain(128 + ((c \div 4096) % 64)),
           Plain(128 + ((c \div 64) % 64)), Plain(128 + (c % 64))>>

Utf8Encode(story) == Flatten([i \in 1..Len(story) |-> Utf8Char(story[i])], 1, Len(story))

\* the value of a byte; a digest byte is no text (its value is not known)
ByteVal(x) == IF IsPlain(x) THEN x[1] ELSE 255

IsCont(v) == v >= 128 /\ v < 192

\* the length of the character a lead byte starts, 0 for a byte that starts none
LeadWidth(v) ==
    IF v < 128 THEN 1
    ELSE IF v >= 194 /\ v <= 223 THEN 2
    ELSE IF v >= 224 /\ v <= 239 THEN 3
    ELSE IF v >= 240 /\ v <= 244 THEN 4
    ELSE 0

\* the offsets of the bytes of s that are no continuation bytes
Leads(s) == SelectSeq([i \in 1..Len(s) |-> i], LAMBDA i : ~IsCont(ByteVal(s[i])))

\* the character of width w starting at s[i] is well formed
CharOk(s, i, w) ==
    /\ w > 0
    /\ i + w - 1 <= Len(s)
    /\ \A j \in (i + 1)..(i + w - 1) : IsCont(ByteVal(s[j]))
    /\ (i + w <= Len(s)) => ~IsCont(ByteVal(s[i + w]))
    /\ LET v == ByteVal(s[i])
           v2 == ByteVal(s[i + 1])
       IN  /\ (v = 224) => v2 >= 160
           /\ (v = 237) => v2 < 160
           /\ (v = 240) => v2 >= 144
           /\ (v = 244) => v2 < 144

Utf8Valid(s) ==
    /\ (Len(s) > 0) => ~IsCont(ByteVal(s[1]))
    /\ \A i \in 1..Len(s) :
          IsCont(ByteVal(s[i])) \/ CharOk(s, i, LeadWidth(ByteVal(s[i])))

CodePoint(s, i) ==
    LET v == ByteVal(s[i])
        w == LeadWidth(v)
        c(j) == ByteVal(s[i + j]) % 64
    IN  IF w = 1 THEN v
        ELSE IF w = 2 THEN ((v % 32) * 64) + c(1)
        ELSE IF w = 3 THEN ((v % 16) * 4096) + (c(1) * 64) + c(2)
        ELSE ((v % 8) * 262144) + (c(1) * 4096) + (c(2) * 64) + c(3)

\* bytes.decode('utf-8') of a well-formed s
Utf8Decode(s) == LET l == Leads(s) IN [k \in 1..Len(l) |-> CodePoint(s, l[k])]

-----------------------------------------------------------------------------
(* The interpreter state a Node method reads: h is the heap of Node          *)
(* instances (records [story, parent, sid, bytes, live]), a is Node._all     *)
(* and c is Node._children.  A dict is the sequence of its entries in        *)
(* insertion order: [key, val] in _all, [key, set] in _children, where set   *)
(* is the WeakSet, the set of the instances it refers to.                    *)

\* the exceptions
ErrStoryLong == "ValueError: story too long"
ErrNullByte == "ValueError: null byte in story"
ErrParent == "TypeError: invalid parent"
ErrSync == "SyncError: only one class dictionary contained parent"
ErrStruct == "struct.error: unpack requires a buffer of 1024 bytes"
ErrUnicode == "UnicodeDecodeError"
ErrInvalidNode == "ValueError: attempt to unpack invalid node"
ErrStop == "TypeError: stop must be Node or None"

\* UnicodeDecodeError is a subclass of ValueError
IsValueError(e) == e \in {ErrStoryLong, ErrNullByte, ErrUnicode, ErrInvalidNode}

SetMin(S) == CHOOSE x \in S : \A y \in S : x <= y

RECURSIVE Find(_, _, _, _), PyEq(_, _, _, _), Pid(_, _, _), Parent(_, _, _), Sid(_, _, _)

\* node.py:84  __hash__: hash(self.sid); the hash of a bytes object stands
\* for its value, the hash of None for itself
Hash(h, a, v) ==
    IF v.kind = "node" THEN Sid(h, a, v.id)
    ELSE IF v.kind = "bytes" THEN v.b
    ELSE <<Plain(0 - 1)>>

\* dict lookup: the index of the first entry of d whose key has the hash of
\* key and is key or equals it, 0 when there is none
Find(h, a, d, key) ==
    LET First(m) == IF m = {} THEN 0 ELSE SetMin(m)
        Match(hk) == {i \in 1..Len(d) : /\ Hash(h, a, d[i].key) = hk
                                        /\ (d[i].key = key \/ PyEq(h, a, d[i].key, key))}
    IN  First(Match(Hash(h, a, key)))

\* __eq__ that compares the stories only
PyEq_StoryOnly(h, a, x, y) ==
    IF x.kind = "node" /\ y.kind = "node" THEN h[y.id].story = h[x.id].story
    ELSE IF x.kind = "node" /\ y.kind = "bytes" THEN y.b = Sid(h, a, x.id)
    ELSE IF x.kind = "bytes" /\ y.kind = "node" THEN x.b = Sid(h, a, y.id)
    ELSE IF x.kind = "bytes" /\ y.kind = "bytes" THEN x.b = y.b
    ELSE x.kind = "none" /\ y.kind = "none"

\* node.py:71  __eq__, as x == y evaluates it for None, bytes and Node operands
PyEq(h, a, x, y) ==
    IF x.kind = "node" /\ y.kind = "node"
      THEN Pid(h, a, y.id) = Pid(h, a, x.id) /\ h[y.id].story = h[x.id].story
    ELSE IF x.kind = "node" /\ y.kind = "bytes" THEN y.b = Sid(h, a, x.id)
    ELSE IF x.kind = "bytes" /\ y.kind = "node" THEN x.b = Sid(h, a, y.id)
    ELSE IF x.kind = "bytes" /\ y.kind = "bytes" THEN x.b = y.b
    ELSE x.kind = "none" /\ y.kind = "none"

\* a parent property that never looks the parent up
Parent_Raw(h, a, n) == h[n].parent

\* node.py:91  the parent property
Parent(h, a, n) ==
    LET Get(i) == IF i # 0 THEN a[i].val ELSE h[n].parent
    IN  Get(Find(h, a, a, h[n].parent))

\* node.py:114  the pid property
Pid(h, a, n) ==
    LET IdOf(p) == IF p.kind = "none" THEN <<>>
                   ELSE IF p.kind = "bytes" THEN p.b
                   ELSE Sid(h, a, p.id)
    IN  IdOf(Parent(h, a, n))

\* a sid that leaves the parent identity out of the digest
Sid_StoryOnly(h, a, n) ==
    IF h[n].sid.kind # "none" THEN h[n].sid.b
    ELSE q_hash(Utf8Encode(h[n].story))

\* node.py:102  the sid property (the value it returns; __init__ stores it)
Sid(h, a, n) ==
    IF h[n].sid.kind # "none" THEN h[n].sid.b
    ELSE q_hash(Pid(h, a, n) \o Utf8Encode(h[n].story))

\* WeakSet.add: a set keeps one of two members that hash and compare equal
WeakSetAdd(h, a, set, n) ==
    IF \E m \in set : /\ Hash(h, a, NodeRef(m)) = Hash(h, a, NodeRef(n))
                      /\ PyEq(h, a, NodeRef(m), NodeRef(n))
      THEN set ELSE set \cup {n}

Raise(h, a, c, e) == [raised |-> e, heap |-> h, all |-> a, children |-> c, node |-> 0]

\* node.py:44  register parent if it exists: the dicts with parent as a key
RegisterParent(h, a, c, parent) ==
    LET Known(not_pis, not_pic) ==
            IF not_pis /\ not_pic
              THEN [raised |-> "", all |-> Append(a, [key |-> parent, val |-> parent]),
                    children |-> Append(c, [key |-> parent, set |-> {}])]
            ELSE IF not_pis # not_pic THEN [raised |-> ErrSync, all |-> a, children |-> c]
            ELSE [raised |-> "", all |-> a, children |-> c]
    IN  IF parent.kind = "none" THEN [raised |-> "", all |-> a, children |-> c]
        ELSE Known(Find(h, a, a, parent) = 0, Find(h, a, c, parent) = 0)

\* node.py:53  add self to parent children: self._children[parent].add(self)
AddToParent(h, a, c, n) ==
    LET Add(i) == [c EXCEPT ![i].set = WeakSetAdd(h, a, @, n)]
    IN  IF h[n].parent.kind = "none" THEN c
        ELSE Add(Find(h, a, c, h[n].parent))

\* node.py:56  self._all[self] = self: a dict keeps the key it has
SetAll(h, a, n) ==
    LET Set(i) == IF i = 0 THEN Append(a, [key |-> NodeRef(n), val |-> NodeRef(n)])
                  ELSE [a EXCEPT ![i].val = NodeRef(n)]
    IN  Set(Find(h, a, a, NodeRef(n)))

\* a registration that leaves self out of _children
SetChildren_Skip(h, a, c, n) == c

\* node.py:57  if self not in self._children: self._children[self] = WeakSet()
SetChildren(h, a, c, n) ==
    IF Find(h, a, c, NodeRef(n)) = 0 THEN Append(c, [key |-> NodeRef(n), set |-> {}])
    ELSE c

\* node.py:43  the registration of __init__; n is the new instance, the last
\* of h.  Its sid is read (and cached) first by the first of these steps
\* that hashes self, which is after the parent is registered
Register(h, a, c, n) ==
    LET Self(h2, a2, c2) ==
            [raised |-> "", heap |-> h2, all |-> a2,
             children |-> SetChildren(h2, a2, c2, n), node |-> n]
        Child(h2, a1, c1) == Self(h2, SetAll(h2, a1, n), AddToParent(h2, a1, c1, n))
        Under(rp) ==
            IF rp.raised # "" THEN Raise(SubSeq(h, 1, n - 1), a, c, rp.raised)
            ELSE Child([h EXCEPT ![n].sid = Bytes(Sid(h, rp.all, n))], rp.all, rp.children)
    IN  Under(RegisterParent(h, a, c, h[n].parent))

\* node.py:27  Node.__init__(story, parent)
NodeInit(h, a, c, story, parent) ==
    IF Len(story) > STORY_SIZE THEN Raise(h, a, c, ErrStoryLong)
    ELSE IF \E i \in 1..Len(story) : story[i] = 0 THEN Raise(h, a, c, ErrNullByte)
    ELSE IF parent.kind \notin {"none", "node", "bytes"} THEN Raise(h, a, c, ErrParent)
    ELSE Register(Append(h, [story |-> story, parent |-> parent, sid |-> None,
                             bytes |-> None, live |-> TRUE]),
                  a, c, Len(h) + 1)

\* struct.pack('%ss' % n, s): s cut or padded with null bytes to n bytes
PackField(s, n) == [i \in 1..n |-> IF i <= Len(s) THEN s[i] ELSE ZeroByte]

\* node.py:131  to_bytes (the value it returns; the action stores the cache)
to_bytes(h, a, n) ==
    IF h[n].bytes.kind # "none" THEN h[n].bytes.b
    ELSE PackField(Pid(h, a, n), DIGEST_SIZE)
           \o PackField(Utf8Encode(h[n].story), STORY_SIZE)
           \o PackField(Sid(h, a, n), DIGEST_SIZE)

\* bytes.rstrip(b'\0')
RStrip(s) ==
    LET last == CHOOSE i \in 0..Len(s) : /\ (i > 0) => s[i] # ZeroByte
                                         /\ \A j \in (i + 1)..Len(s) : s[j] = ZeroByte
    IN  SubSeq(s, 1, last)

\* node.py:146  from_bytes(b)
from_bytes(h, a, c, b) ==
    IF Len(b) # TOTAL_SIZE THEN Raise(h, a, c, ErrStruct)
    ELSE
    LET Verify(sid, r) ==
            IF r.raised # "" THEN r
            ELSE IF sid # Sid(r.heap, r.all, r.node)
              THEN [r EXCEPT !.raised = ErrInvalidNode, !.node = 0]
              ELSE r
        Unpacked(parent, story, sid) ==
            IF ~Utf8Valid(story) THEN Raise(h, a, c, ErrUnicode)
            ELSE Verify(sid, NodeInit(h, a, c, Utf8Decode(story),
                                      IF parent # Zeros(DIGEST_SIZE) THEN Bytes(parent)
                                      ELSE None))
    IN  Unpacked(SubSeq(b, 1, DIGEST_SIZE),
                 RStrip(SubSeq(b, DIGEST_SIZE + 1, DIGEST_SIZE + STORY_SIZE)),
                 SubSeq(b, DIGEST_SIZE + STORY_SIZE + 1, TOTAL_SIZE))

\* node.py:183  the loop of retrace: l is the list so far, its last is current
RECURSIVE RetraceLoop(_, _, _, _, _)
RetraceLoop(h, a, current, l, stop) ==
    LET Step(p) == IF ~PyEq(h, a, p, stop) /\ p.kind # "bytes"
                     THEN IF p.kind = "none" THEN l
                          ELSE RetraceLoop(h, a, p.id, Append(l, p.id), stop)
                     ELSE l
    IN  Step(Parent(h, a, current))

\* a loop that never compares the parent with stop
RECURSIVE RetraceLoop_NoStop(_, _, _, _, _)
RetraceLoop_NoStop(h, a, current, l, stop) ==
    LET Step(p) == IF p.kind = "node"
                     THEN RetraceLoop_NoStop(h, a, p.id, Append(l, p.id), stop)
                     ELSE l
    IN  Step(Parent(h, a, current))

retrace_NoStop(h, a, n, stop) ==
    IF stop.kind \notin {"none", "node", "bytes"}
      THEN [raised |-> ErrStop, list |-> <<>>]
      ELSE [raised |-> "", list |-> RetraceLoop_NoStop(h, a, n, <<n>>, stop)]

\* a loop that appends the parent before it compares it with stop
RECURSIVE RetraceLoop_WithStop(_, _, _, _, _)
RetraceLoop_WithStop(h, a, current, l, stop) ==
    LET Step(p) == IF p.kind # "node" THEN l
                   ELSE IF PyEq(h, a, p, stop) THEN Append(l, p.id)
                   ELSE RetraceLoop_WithStop(h, a, p.id, Append(l, p.id), stop)
    IN  Step(Parent(h, a, current))

retrace_WithStop(h, a, n, stop) ==
    IF stop.kind \notin {"none", "node", "bytes"}
      THEN [raised |-> ErrStop, list |-> <<>>]
      ELSE [raised |-> "", list |-> RetraceLoop_WithStop(h, a, n, <<n>>, stop)]

\* node.py:171  retrace(stop)
retrace(h, a, n, stop) ==
    IF stop.kind \notin {"none", "node", "bytes"}
      THEN [raised |-> ErrStop, list |-> <<>>]
      ELSE [raised |-> "", list |-> RetraceLoop(h, a, n, <<n>>, stop)]

-----------------------------------------------------------------------------
(* The program state *)

VARIABLES
    heap,       \* the Node instances made so far
    all,        \* Node._all
    children,   \* Node._children
    held,       \* the instances the application holds a reference to
    result,     \* the last call: its arguments and what it returned or raised
    disk,       \* the files: name -> [exists, size, at]
    store,      \* the Store, its buffer and its two locks
    listener,   \* the Listener, its socket and its lock
    threads     \* the threads: what each one calls and where it is in the call

\* the state of the node engine, and the state of the store, the listener
\* and the threads
nodeVars == <<heap, all, children, held, result>>
ioVars == <<disk, store, listener, threads>>
vars == <<heap, all, children, held, result, disk, store, listener, threads>>

\* the most Node instances a run makes: of the node tree, of the codec
MaxNodes == 3
MaxBlocks == 2

Rep(n, ch) == [i \in 1..n |-> ch]

\* the stories the application passes: "x" and "y",
ShortStories == {<<120>>, <<121>>}
\* 896 and 897 times "a", 449 times "e acute" (two bytes each), and "a\0"
LongStories == {Rep(STORY_SIZE, 97), Rep(STORY_SIZE + 1, 97),
                Rep(STORY_SIZE \div 2 + 1, 233), <<97, 0>>}

\* the sid of the root node with story "x"
DigestX == q_hash(Utf8Encode(<<120>>))

\* bytes objects that are no digest: 64 null bytes, and 65 bytes
OddDigests == {Bytes(Zeros(DIGEST_SIZE)), Bytes(Append(DigestX, Plain(1)))}

Live(h) == {i \in 1..Len(h) : h[i].live}

\* the instances something refers to strongly: the application, a dict (as
\* a key or a value), or the _parent of a live instance
Strong(h, a, c, hd) ==
    hd \cup {a[i].key.id : i \in {j \in 1..Len(a) : a[j].key.kind = "node"}}
       \cup {a[i].val.id : i \in {j \in 1..Len(a) : a[j].val.kind = "node"}}
       \cup {c[i].key.id : i \in {j \in 1..Len(c) : c[j].key.kind = "node"}}
       \cup {h[i].parent.id : i \in {j \in Live(h) : h[j].parent.kind = "node"}}

\* reference counting: an instance nothing refers to strongly is freed at
\* once, and a WeakSet drops its reference to it
RECURSIVE Sweep(_, _, _, _)
Sweep(h, a, c, hd) ==
    LET dead == Live(h) \ Strong(h, a, c, hd)
    IN  IF dead = {} THEN [heap |-> h, children |-> c]
        ELSE Sweep([i \in 1..Len(h) |-> IF i \in dead THEN [h[i] EXCEPT !.live = FALSE]
                                        ELSE h[i]],
                   a,
                   [i \in 1..Len(c) |-> [c[i] EXCEPT !.set = @ \ dead]],
                   hd)

NoBlock == [kind |-> "", src |-> 0, off |-> 0, bit |-> 0]

NoResult == [op |-> "init", raised |-> "", node |-> 0, list |-> <<>>, self |-> 0,
             story |-> <<>>, val |-> None, blk |-> NoBlock]

\* threading.RLock(): the thread that owns it (0: none) and how often
Unlocked == [owner |-> 0, count |-> 0]

\* no Store, no Listener
NoStore == [made |-> FALSE, by |-> "", name |-> "", raised |-> "",
            stored |-> None, size |-> None, limit |-> None, previous |-> None,
            closed |-> FALSE, pos |-> <<>>, last |-> 0, closes |-> 0,
            buf_lock |-> Unlocked, opt_lock |-> Unlocked]
NoListener == [made |-> FALSE, raised |-> "", lock |-> Unlocked, running |-> FALSE,
               thread |-> "None", loop |-> "none", value |-> FALSE,
               pending |-> 0, handled |-> 0]

Init ==
    /\ heap = <<>>
    /\ all = <<>>
    /\ children = <<>>
    /\ held = {}
    /\ result = NoResult
    /\ disk = <<>>
    /\ store = NoStore
    /\ listener = NoListener
    /\ threads = <<>>

\* the state after a call that returned or raised r; the application holds
\* the instance the call returned
Commit(r, res) ==
    LET Freed(hd, sw) ==
            /\ heap' = sw.heap
            /\ all' = r.all
            /\ children' = sw.children
            /\ held' = hd
            /\ result' = [res EXCEPT !.raised = r.raised, !.node = r.node]
        Held(hd) == Freed(hd, Sweep(r.heap, r.all, r.children, hd))
    IN  Held(IF r.node # 0 THEN held \cup {r.node} ELSE held)

\* the values the application can pass as a parent or a stop
Values == {None, Other, Bytes(DigestX)} \cup {NodeRef(i) : i \in Live(heap)}

\* the arguments the application constructs a node of the tree with
TreeArgs == ShortStories \X Values

\* the arguments the application constructs a node to encode with: "x" with
\* any parent, a long story as a root, "" under an odd digest
CodecArgs == ({<<120>>} \X Values) \cup (LongStories \X {None})
                \cup ({<<>>} \X OddDigests)

\* Node(story, parent)
NewNode(story, parent) ==
    /\ Commit(NodeInit(heap, all, children, story, parent),
              [NoResult EXCEPT !.op = "Node", !.story = story, !.val = parent])

\* a branch that constructs the child without a parent
branch_Orphan(h, a, c, n, story) == NodeInit(h, a, c, story, None)

\* node.py:165  branch(story)
branch(h, a, c, n, story) ==
    LET Add(r, i) == [r EXCEPT !.children[i].set = WeakSetAdd(r.heap, r.all, @, r.node)]
        Made(r) == IF r.raised # "" THEN r
                   ELSE Add(r, Find(r.heap, r.all, r.children, NodeRef(n)))
    IN  Made(NodeInit(h, a, c, story, NodeRef(n)))

\* n.branch(story)
Branch(n, story) ==
    Commit(branch(heap, all, children, n, story),
           [NoResult EXCEPT !.op = "branch", !.self = n, !.story = story])

\* n.to_bytes()
ToBytes(n) ==
    /\ heap[n].bytes.kind = "none"
    /\ heap' = [heap EXCEPT ![n].bytes = Bytes(to_bytes(heap, all, n))]
    /\ result' = [NoResult EXCEPT !.op = "to_bytes", !.self = n]
    /\ UNCHANGED <<all, children, held>>

\* the offsets and the bits of the bytes that are flipped in a block
FlipOffsets == {0, DIGEST_SIZE, DIGEST_SIZE + 1, DIGEST_SIZE + STORY_SIZE - 1}
FlipBits == {0, 7}

\* the blocks the application passes to from_bytes and identify_block: the
\* encoding of a node, an encoding with one bit flipped, an encoding cut by
\* a byte or longer by a byte, no bytes, and an empty slot of null bytes
Blocks ==
    LET enc == {i \in Live(heap) : heap[i].bytes.kind # "none"}
    IN  {[kind |-> k, src |-> i, off |-> 0, bit |-> 0] : k \in {"enc", "cut", "long"}, i \in enc}
        \cup {[kind |-> "flip", src |-> i, off |-> o, bit |-> k] :
                i \in enc, o \in FlipOffsets, k \in FlipBits}
        \cup {[kind |-> k, src |-> 0, off |-> 0, bit |-> 0] : k \in {"none", "blank"}}

\* the bytes of a block, from the encodings h holds
BlockBytes(h, blk) ==
    CASE blk.kind = "enc" -> h[blk.src].bytes.b
      [] blk.kind = "flip" -> FlipBit(h[blk.src].bytes.b, blk.off, blk.bit)
      [] blk.kind = "cut" -> SubSeq(h[blk.src].bytes.b, 1, TOTAL_SIZE - 1)
      [] blk.kind = "long" -> Append(h[blk.src].bytes.b, ZeroByte)
      [] blk.kind = "none" -> <<>>
      [] blk.kind = "blank" -> Zeros(TOTAL_SIZE)

\* Node.from_bytes(b)
FromBytes(blk) ==
    /\ Commit(from_bytes(heap, all, children, BlockBytes(heap, blk)),
              [NoResult EXCEPT !.op = "from_bytes", !.blk = blk])

\* store.py:65  Store.identify_block(b): a ValueError is swallowed and None
\* returned; any other exception propagates
identify_block(h, a, c, b) ==
    LET Caught(r) == IF IsValueError(r.raised) THEN [r EXCEPT !.raised = "", !.node = 0]
                     ELSE r
    IN  Caught(from_bytes(h, a, c, b))

IdentifyBlock(blk) ==
    /\ Commit(identify_block(heap, all, children, BlockBytes(heap, blk)),
              [NoResult EXCEPT !.op = "identify_block", !.blk = blk])

\* n.retrace(stop)
Retrace(n, stop) ==
    /\ LET Returned(r) ==
               result' = [NoResult EXCEPT !.op = "retrace", !.self = n, !.val = stop,
                                          !.raised = r.raised, !.list = r.list]
       IN  Returned(retrace(heap, all, n, stop))
    /\ UNCHANGED <<heap, all, children, held>>

\* the application drops its reference to n
Release(n) ==
    /\ LET Freed(sw) == heap' = sw.heap /\ children' = sw.children
       IN  Freed(Sweep(heap, all, children, held \ {n}))
    /\ held' = held \ {n}
    /\ result' = [NoResult EXCEPT !.op = "release", !.self = n]
    /\ UNCHANGED all

\* the node tree: construction, branch, retrace, and dropped references
Next ==
    \/ /\ Len(heap) < MaxNodes /\ \E args \in TreeArgs : NewNode(args[1], args[2])
       /\ UNCHANGED ioVars
    \/ /\ Len(heap) < MaxNodes
       /\ \E n \in Live(heap), story \in ShortStories : Branch(n, story)
       /\ UNCHANGED ioVars
    \/ (\E n \in Live(heap), stop \in Values : Retrace(n, stop)) /\ UNCHANGED ioVars
    \/ (\E n \in held : Release(n)) /\ UNCHANGED ioVars

Spec == Init /\ [][Next]_vars

\* the codec: construction, branch, to_bytes, from_bytes and identify_block
NextCodec ==
    \/ /\ Len(heap) < MaxBlocks /\ \E args \in CodecArgs : NewNode(args[1], args[2])
       /\ UNCHANGED ioVars
    \/ /\ Len(heap) < MaxBlocks /\ \E n \in Live(heap) : Branch(n, <<120>>)
       /\ UNCHANGED ioVars
    \/ (\E n \in Live(heap) : ToBytes(n)) /\ UNCHANGED ioVars
    \/ /\ Len(heap) < MaxBlocks /\ \E blk \in Blocks : FromBytes(blk)
       /\ UNCHANGED ioVars
    \/ /\ Len(heap) < MaxBlocks /\ \E blk \in Blocks : IdentifyBlock(blk)
       /\ UNCHANGED ioVars

SpecCodec == Init /\ [][NextCodec]_vars


-----------------------------------------------------------------------------
(* The block store: pyble/core/store.py.  A Python int is the record         *)
(* PyInt(d) of its little-endian base-256 digits d, the last digit not zero  *)
(* (0 is PyInt(<<>>)).  A file is [exists, size, at]: its length and the     *)
(* bytes that were written, by offset; a byte never written reads as a null  *)
(* byte.                                                                     *)

PyInt(d) == [kind |-> "int", id |-> 0, b |-> d]

\* the digits of v * k + c, for the number v with the digits d (k > 0)
RECURSIVE NatMulAdd(_, _, _)
NatMulAdd(d, k, c) ==
    IF d = <<>>
      THEN IF c = 0 THEN <<>> ELSE <<c % 256>> \o NatMulAdd(<<>>, k, c \div 256)
      ELSE <<(d[1] * k + c) % 256>> \o NatMulAdd(Tail(d), k, (d[1] * k + c) \div 256)

Digits(v) == NatMulAdd(<<>>, 1, v)
NatAdd(d, c) == NatMulAdd(d, 1, c)

\* the digits of v * 256^n
NatShift(d, n) == IF d = <<>> THEN <<>> ELSE [i \in 1..n |-> 0] \o d

NatLess(x, y) ==
    \/ Len(x) < Len(y)
    \/ /\ Len(x) = Len(y)
       /\ \E i \in 1..Len(x) : x[i] < y[i] /\ \A j \in (i + 1)..Len(x) : x[j] = y[j]

NatMax(x, y) == IF NatLess(x, y) THEN y ELSE x

\* store.py:9  OPT_FMT = 'QQQQ'
OPT_FMT == <<"Q", "Q", "Q", "Q">>
\* the size of a Q, an unsigned 64-bit integer
Q_SIZE == 8
\* store.py:10  OPT_SIZE = struct.calcsize(OPT_FMT)
OPT_SIZE == Q_SIZE * Len(OPT_FMT)

ErrNotInt == "struct.error: required argument is not an integer"
ErrRange == "struct.error: argument out of range"
ErrUnpack == "struct.error: unpack requires a buffer of 32 bytes"
ErrClosed == "ValueError: I/O operation on closed file"
ErrOffset == "ValueError: cannot fit 'int' into an offset-sized integer"

\* struct.pack('Q', v): why it fails, or "" when v is an int below 2^64
PackErr(v) ==
    IF v.kind # "int" THEN ErrNotInt
    ELSE IF Len(v.b) > Q_SIZE THEN ErrRange
    ELSE ""

PackQ(v) == [i \in 1..Q_SIZE |-> Plain(IF i <= Len(v.b) THEN v.b[i] ELSE 0)]

\* struct.pack(OPT_FMT, vals[1], .., vals[4])
struct_pack(vals) ==
    LET Packed(bad) ==
            IF bad # {} THEN [raised |-> PackErr(vals[SetMin(bad)]), b |-> <<>>]
            ELSE [raised |-> "",
                  b |-> Flatten([k \in 1..Len(vals) |-> PackQ(vals[k])], 1, Len(vals))]
    IN  Packed({k \in 1..Len(vals) : PackErr(vals[k]) # ""})

UnpackQ(bs) ==
    LET Value(s) == PyInt([i \in 1..Len(s) |-> s[i][1]])
    IN  Value(RStrip(bs))

\* struct.unpack(OPT_FMT, b)
struct_unpack(b) ==
    IF Len(b) # OPT_SIZE THEN [raised |-> ErrUnpack, vals |-> <<>>]
    ELSE [raised |-> "",
          vals |-> [k \in 1..Len(OPT_FMT) |->
                       UnpackQ(SubSeq(b, Q_SIZE * (k - 1) + 1, Q_SIZE * k))]]

\* an offset the buffer can seek to: one below 2^63
FitsOffset(d) == Len(d) < Q_SIZE \/ (Len(d) = Q_SIZE /\ d[Q_SIZE] < 128)

NoFile == [exists |-> FALSE, size |-> <<>>, at |-> <<>>]

\* the file that holds the bytes bs
FileOf(bs) ==
    [exists |-> TRUE, size |-> Digits(Len(bs)),
     at |-> [o \in {Digits(j - 1) : j \in 1..Len(bs)} |->
                bs[CHOOSE j \in 1..Len(bs) : Digits(j - 1) = o]]]

\* read(n) at the offset pos: the bytes of the file from pos, n at most
FileRead(f, pos, n) ==
    LET Bytes_(offs) == [j \in 1..Len(offs) |->
                            IF offs[j] \in DOMAIN f.at THEN f.at[offs[j]] ELSE ZeroByte]
    IN  Bytes_(SelectSeq([j \in 1..n |-> NatAdd(pos, j - 1)],
                         LAMBDA o : NatLess(o, f.size)))

\* write(bs) at the offset pos
FileWrite(f, pos, bs) ==
    LET Index(o) == CHOOSE j \in 1..Len(bs) : NatAdd(pos, j - 1) = o
        New(offs) == [o \in DOMAIN f.at \cup offs |->
                         IF o \in offs THEN bs[Index(o)] ELSE f.at[o]]
    IN  [f EXCEPT !.size = NatMax(@, NatAdd(pos, Len(bs))),
                  !.at = New({NatAdd(pos, j - 1) : j \in 1..Len(bs)})]

\* store.py:30  Store.__init__(buffer, stored=, size=, limit=, previous=);
\* the buffer is the open file name, positioned at pos
StoreInit(name, pos, opt) ==
    [NoStore EXCEPT !.made = TRUE, !.name = name, !.pos = pos,
                    !.stored = opt[1], !.size = opt[2], !.limit = opt[3],
                    !.previous = opt[4]]

\* the defaults of Store.__init__: stored=0, size=16, limit=2**20, previous=None
StoreDefaults == <<PyInt(<<>>), PyInt(Digits(16)), PyInt(Digits(2^20)), None>>

\* store.py:47  Store.opt_load(buffer): seek(0), read(OPT_SIZE), unpack
opt_load(f) == struct_unpack(FileRead(f, <<>>, OPT_SIZE))

\* store.py:13  open_store(name): the files and the Store afterwards; the
\* Store is not made when opt_load raises
open_store(d, name) ==
    LET Loaded(d2, opt) ==
            [disk |-> d2,
             store |-> IF opt.raised # ""
                         THEN [NoStore EXCEPT !.by = "open_store", !.name = name,
                                              !.raised = opt.raised]
                         ELSE [StoreInit(name, Digits(OPT_SIZE), opt.vals)
                                 EXCEPT !.by = "open_store"]]
        Opened(d2) == Loaded(d2, opt_load(d2[name]))
    IN  Opened(IF d[name].exists THEN d ELSE [d EXCEPT ![name] = FileOf(<<>>)])

\* store.py:63  the offset of the i-th block: OPT_SIZE + node.TOTAL_SIZE * i
SeekOffset_NoHeader(i) == NatMulAdd(i.b, TOTAL_SIZE, 0)

SeekOffset(i) == NatMulAdd(i.b, TOTAL_SIZE, OPT_SIZE)

\* a lock that excludes no thread
CanAcquire_Always(l, t) == TRUE

\* RLock.acquire() by the thread t returns when no other thread owns the lock
CanAcquire(l, t) == l.owner \in {0, t}

Acquire(l, t) == [owner |-> t, count |-> l.count + 1]

Release_(l) == IF l.count <= 1 THEN Unlocked ELSE [l EXCEPT !.count = @ - 1]

\* the threads of the store, the calls each one makes at most
StoreThreads == 2
MaxCalls == 2

FileNames == {"new", "old"}

\* 2^53 - 1, the last index whose offset is below 2^63, and 2^53
LastIndex == [i \in 1..7 |-> IF i = 7 THEN 31 ELSE 255]
Pow53 == NatShift(Digits(32), 6)
\* 2^64
Pow64 == NatShift(Digits(1), 8)

\* the indexes the threads seek to
SeekIndexes == {PyInt(<<>>), PyInt(Digits(2)), PyInt(LastIndex), PyInt(Pow53)}

\* the headers the application constructs a Store with: the defaults, no
\* resize in progress as 0, and a count that is out of range
StoreArgs == {StoreDefaults,
              <<PyInt(Digits(3)), PyInt(Digits(16)), PyInt(Digits(2^20)), PyInt(<<>>)>>,
              <<PyInt(Pow64), PyInt(Digits(16)), PyInt(Digits(2^20)), PyInt(<<>>)>>}

\* the contents of the file "old": a header and a byte of the first block,
\* a header with the largest fields, and nothing
OldFiles == {struct_pack(<<PyInt(Digits(1)), PyInt(Digits(16)), PyInt(Digits(2^20)),
                           PyInt(Digits(8))>>).b \o <<Plain(7)>>,
             struct_pack(<<PyInt([i \in 1..Q_SIZE |-> 255]), PyInt(<<>>), PyInt(Digits(1)),
                           PyInt(<<>>)>>).b,
             <<>>}

NoThread == [op |-> "", pc |-> "idle", arg |-> None, b |-> <<>>, raised |-> "",
             calls |-> 0]

InitStore ==
    /\ heap = <<>>
    /\ all = <<>>
    /\ children = <<>>
    /\ held = {}
    /\ result = NoResult
    /\ disk \in {[n \in FileNames |-> IF n = "old" THEN FileOf(c) ELSE NoFile] :
                    c \in OldFiles}
    /\ store = NoStore
    /\ listener = NoListener
    /\ threads = [t \in 1..StoreThreads |-> NoThread]

\* open_store(name), the first use of the store
OpenStore(name) ==
    /\ store.name = ""
    /\ LET Returned(r) == disk' = r.disk /\ store' = r.store
       IN  Returned(open_store(disk, name))
    /\ UNCHANGED threads

\* Store(open("old", "rb+"), stored=, size=, limit=, previous=)
NewStore(opt) ==
    /\ store.name = ""
    /\ disk["old"].exists
    /\ store' = StoreInit("old", <<>>, opt)
    /\ UNCHANGED <<disk, threads>>

\* the thread t goes on as the record th
Goto(t, th) == threads' = [threads EXCEPT ![t] = th]

\* the thread t calls op with the argument arg; pc is its first step
Call(t, op, arg, pc) ==
    /\ store.made
    /\ threads[t].pc = "idle"
    /\ threads[t].calls < MaxCalls
    /\ Goto(t, [op |-> op, pc |-> pc, arg |-> arg, b |-> <<>>, raised |-> "",
                calls |-> threads[t].calls + 1])

CallClose(t) ==
    /\ Call(t, "close", None, "close_buf_lock")
    /\ store' = [store EXCEPT !.closes = @ + 1]
    /\ UNCHANGED disk

CallOptSave(t) == Call(t, "opt_save", None, "opt_save_pack") /\ UNCHANGED <<disk, store>>

CallSeekBlock(t, i) ==
    Call(t, "seek_block", i, "seek_block_lock") /\ UNCHANGED <<disk, store>>

\* where an exception raised in opt_save goes on: in the ExitStack of
\* close, or out of the call
Unwind(t) == IF threads[t].op = "close" THEN "close_exit_opt" ELSE "idle"

\* store.py:75  es.enter_context(self._buf_lock)
close_buf_lock(t) ==
    /\ threads[t].pc = "close_buf_lock"
    /\ CanAcquire(store.buf_lock, t)
    /\ store' = [store EXCEPT !.buf_lock = Acquire(@, t)]
    /\ Goto(t, [threads[t] EXCEPT !.pc = "close_opt_lock"])
    /\ UNCHANGED disk

\* store.py:76  es.enter_context(self._opt_lock)
close_opt_lock(t) ==
    /\ threads[t].pc = "close_opt_lock"
    /\ CanAcquire(store.opt_lock, t)
    /\ store' = [store EXCEPT !.opt_lock = Acquire(@, t)]
    /\ Goto(t, [threads[t] EXCEPT !.pc = "opt_save_pack"])
    /\ UNCHANGED disk

\* store.py:42  b = struct.pack(OPT_FMT, ...), before the lock is taken
opt_save_pack(t) ==
    /\ threads[t].pc = "opt_save_pack"
    /\ LET Packed(r) ==
               IF r.raised # ""
                 THEN Goto(t, [threads[t] EXCEPT !.raised = r.raised, !.pc = Unwind(t)])
                 ELSE Goto(t, [threads[t] EXCEPT !.b = r.b, !.pc = "opt_save_lock"])
       IN  Packed(struct_pack(<<store.stored, store.size, store.limit, store.previous>>))
    /\ UNCHANGED <<disk, store>>

\* store.py:43  with self._buf_lock
opt_save_lock(t) ==
    /\ threads[t].pc = "opt_save_lock"
    /\ CanAcquire(store.buf_lock, t)
    /\ store' = [store EXCEPT !.buf_lock = Acquire(@, t)]
    /\ Goto(t, [threads[t] EXCEPT !.pc = "opt_save_seek"])
    /\ UNCHANGED disk

\* store.py:44  self._buffer.seek(0)
opt_save_seek(t) ==
    /\ threads[t].pc = "opt_save_seek"
    /\ IF store.closed
         THEN /\ Goto(t, [threads[t] EXCEPT !.raised = ErrClosed, !.pc = "opt_save_unlock"])
              /\ UNCHANGED store
         ELSE /\ Goto(t, [threads[t] EXCEPT !.pc = "opt_save_write"])
              /\ store' = [store EXCEPT !.pos = <<>>, !.last = t]
    /\ UNCHANGED disk

\* store.py:45  self._buffer.write(b)
opt_save_write(t) ==
    /\ threads[t].pc = "opt_save_write"
    /\ IF store.closed
         THEN /\ Goto(t, [threads[t] EXCEPT !.raised = ErrClosed, !.pc = "opt_save_unlock"])
              /\ UNCHANGED <<store, disk>>
         ELSE /\ Goto(t, [threads[t] EXCEPT !.pc = "opt_save_unlock"])
              /\ disk' = [disk EXCEPT ![store.name] = FileWrite(@, store.pos, threads[t].b)]
              /\ store' = [store EXCEPT !.pos = NatAdd(@, Len(threads[t].b)), !.last = t]

\* store.py:43  the end of with self._buf_lock, by return or by exception
opt_save_unlock(t) ==
    /\ threads[t].pc = "opt_save_unlock"
    /\ store' = [store EXCEPT !.buf_lock = Release_(@)]
    /\ Goto(t, [threads[t] EXCEPT !.pc = IF threads[t].raised # "" THEN Unwind(t)
                                         ELSE IF threads[t].op = "close" THEN "close_buffer"
                                         ELSE "idle"])
    /\ UNCHANGED disk

\* store.py:78  self._buffer.close()
close_buffer(t) ==
    /\ threads[t].pc = "close_buffer"
    /\ store' = [store EXCEPT !.closed = TRUE, !.last = t]
    /\ Goto(t, [threads[t] EXCEPT !.pc = "close_exit_opt"])
    /\ UNCHANGED disk

\* store.py:74  the end of with ExitStack(): the locks are released in the
\* reverse of the order they were entered in
close_exit_opt(t) ==
    /\ threads[t].pc = "close_exit_opt"
    /\ store' = [store EXCEPT !.opt_lock = Release_(@)]
    /\ Goto(t, [threads[t] EXCEPT !.pc = "close_exit_buf"])
    /\ UNCHANGED disk

close_exit_buf(t) ==
    /\ threads[t].pc = "close_exit_buf"
    /\ store' = [store EXCEPT !.buf_lock = Release_(@)]
    /\ Goto(t, [threads[t] EXCEPT !.pc = "idle"])
    /\ UNCHANGED disk

\* store.py:62  with self._buf_lock
seek_block_lock(t) ==
    /\ threads[t].pc = "seek_block_lock"
    /\ CanAcquire(store.buf_lock, t)
    /\ store' = [store EXCEPT !.buf_lock = Acquire(@, t)]
    /\ Goto(t, [threads[t] EXCEPT !.pc = "seek_block_seek"])
    /\ UNCHANGED disk

\* store.py:63  self._buffer.seek(OPT_SIZE + node.TOTAL_SIZE * i)
seek_block_seek(t) ==
    /\ threads[t].pc = "seek_block_seek"
    /\ LET Sought(off) ==
               IF store.closed
                 THEN /\ Goto(t, [threads[t] EXCEPT !.raised = ErrClosed,
                                                    !.pc = "seek_block_unlock"])
                      /\ UNCHANGED store
               ELSE IF ~FitsOffset(off)
                 THEN /\ Goto(t, [threads[t] EXCEPT !.raised = ErrOffset,
                                                    !.pc = "seek_block_unlock"])
                      /\ UNCHANGED store
               ELSE /\ Goto(t, [threads[t] EXCEPT !.pc = "seek_block_unlock"])
                    /\ store' = [store EXCEPT !.pos = off, !.last = t]
       IN  Sought(SeekOffset(threads[t].arg))
    /\ UNCHANGED disk

\* store.py:62  the end of with self._buf_lock
seek_block_unlock(t) ==
    /\ threads[t].pc = "seek_block_unlock"
    /\ store' = [store EXCEPT !.buf_lock = Release_(@)]
    /\ Goto(t, [threads[t] EXCEPT !.pc = "idle"])
    /\ UNCHANGED disk

\* the store: it is opened or constructed, and the threads call close,
\* opt_save and seek_block on it, a step at a time
NextStore ==
    \/ (\E name \in FileNames : OpenStore(name)) /\ UNCHANGED nodeVars /\ UNCHANGED listener
    \/ (\E opt \in StoreArgs : NewStore(opt)) /\ UNCHANGED nodeVars /\ UNCHANGED listener
    \/ (\E t \in 1..StoreThreads : CallClose(t)) /\ UNCHANGED nodeVars /\ UNCHANGED listener
    \/ (\E t \in 1..StoreThreads : CallOptSave(t)) /\ UNCHANGED nodeVars /\ UNCHANGED listener
    \/ (\E t \in 1..StoreThreads, i \in SeekIndexes : CallSeekBlock(t, i))
          /\ UNCHANGED nodeVars /\ UNCHANGED listener
    \/ (\E t \in 1..StoreThreads : close_buf_lock(t)) /\ UNCHANGED nodeVars /\ UNCHANGED listener
    \/ (\E t \in 1..StoreThreads : close_opt_lock(t)) /\ UNCHANGED nodeVars /\ UNCHANGED listener
    \/ (\E t \in 1..StoreThreads : opt_save_pack(t)) /\ UNCHANGED nodeVars /\ UNCHANGED listener
    \/ (\E t \in 1..StoreThreads : opt_save_lock(t)) /\ UNCHANGED nodeVars /\ UNCHANGED listener
    \/ (\E t \in 1..StoreThreads : opt_save_seek(t)) /\ UNCHANGED nodeVars /\ UNCHANGED listener
    \/ (\E t \in 1..StoreThreads : opt_save_write(t)) /\ UNCHANGED nodeVars /\ UNCHANGED listener
    \/ (\E t \in 1..StoreThreads : opt_save_unlock(t)) /\ UNCHANGED nodeVars /\ UNCHANGED listener
    \/ (\E t \in 1..StoreThreads : close_buffer(t)) /\ UNCHANGED nodeVars /\ UNCHANGED listener
    \/ (\E t \in 1..StoreThreads : close_exit_opt(t)) /\ UNCHANGED nodeVars /\ UNCHANGED listener
    \/ (\E t \in 1..StoreThreads : close_exit_buf(t)) /\ UNCHANGED nodeVars /\ UNCHANGED listener
    \/ (\E t \in 1..StoreThreads : seek_block_lock(t)) /\ UNCHANGED nodeVars /\ UNCHANGED listener
    \/ (\E t \in 1..StoreThreads : seek_block_seek(t)) /\ UNCHANGED nodeVars /\ UNCHANGED listener
    \/ (\E t \in 1..StoreThreads : seek_block_unlock(t)) /\ UNCHANGED nodeVars /\ UNCHANGED listener

SpecStore == InitStore /\ [][NextStore]_vars

-----------------------------------------------------------------------------
(* The claims *)

Keys(d) == {d[i].key : i \in 1..Len(d)}

\* C1: a key is present in Node._all if and only if it is present in
\* Node._children: the two dicts hold the same key objects, and every value
\* (a key of either dict, a live node, a raw digest) is found in both or in
\* neither, after any sequence of constructions, branch and from_bytes calls.
C1_KeysAgree ==
    /\ Keys(all) = Keys(children)
    /\ \A k \in Keys(all) \cup Keys(children) \cup OddDigests \cup {Bytes(DigestX)}
                \cup {NodeRef(i) : i \in Live(heap)} :
          (Find(heap, all, all, k) # 0) <=> (Find(heap, all, children, k) # 0)

\* a from_bytes call failed on the sid after it registered its node under a
\* raw digest
C1_Witness ==
    /\ result.op = "from_bytes"
    /\ result.raised = ErrInvalidNode
    /\ Len(all) >= 3
    /\ \E i \in 1..Len(all) : all[i].key.kind = "bytes"

\* C2: from_bytes(to_bytes(n)) succeeds for every constructed node n and
\* returns a node with the sid, the story and the parent identity of n, and
\* that sid is the one in the last 64 bytes of the encoding.
C2_RoundTrip ==
    (result.op = "from_bytes" /\ result.blk.kind = "enc") =>
        LET n == result.blk.src
            m == result.node
        IN  /\ result.raised = ""
            /\ m # 0
            /\ heap[m].sid = heap[n].sid
            /\ heap[m].story = heap[n].story
            /\ Pid(heap, all, m) = Pid(heap, all, n)
            /\ heap[m].sid.b = SubSeq(heap[n].bytes.b, TOTAL_SIZE - DIGEST_SIZE + 1, TOTAL_SIZE)

\* C3: from_bytes of an encoding with one bit flipped in the parent field or
\* the story field raises and returns no node.  (The integrity error is a
\* ValueError; the formula admits every ValueError from_bytes raises.)
C3_TamperDetected ==
    (/\ result.op = "from_bytes"
     /\ result.blk.kind = "flip"
     /\ result.blk.off < DIGEST_SIZE + STORY_SIZE) =>
        IsValueError(result.raised) /\ result.node = 0

\* the parent identity a node was constructed with
GivenPid(n) ==
    LET p == heap[n].parent
    IN  IF p.kind = "none" THEN <<>>
        ELSE IF p.kind = "bytes" THEN p.b
        ELSE heap[p.id].sid.b

SameContent(i, j) == GivenPid(i) = GivenPid(j) /\ heap[i].story = heap[j].story

\* C4: two instances constructed with the same parent identity (given as raw
\* bytes or as a node) and the same story compare equal and hash equal; two
\* that differ in either compare unequal.
C4_EqualIffSameContent ==
    \A i, j \in Live(heap) :
        IF SameContent(i, j)
          THEN /\ PyEq(heap, all, NodeRef(i), NodeRef(j))
               /\ Hash(heap, all, NodeRef(i)) = Hash(heap, all, NodeRef(j))
          ELSE ~PyEq(heap, all, NodeRef(i), NodeRef(j))

\* two equal instances, one constructed under a digest and one under the
\* node of that digest
C4_Witness ==
    \E i, j \in Live(heap) :
        /\ i # j
        /\ heap[i].parent.kind = "bytes"
        /\ heap[j].parent.kind = "node"
        /\ SameContent(i, j)

Owned(n) == n \in held \/ \E j \in Live(heap) : heap[j].parent = NodeRef(n)

\* C7: the registry alone keeps no node registered: every node that is a key
\* or a value of Node._all or a key of Node._children has an external owner.
C7_WeakRegistry ==
    /\ \A i \in 1..Len(all) :
          /\ (all[i].key.kind = "node") => Owned(all[i].key.id)
          /\ (all[i].val.kind = "node") => Owned(all[i].val.id)
    /\ \A i \in 1..Len(children) :
          (children[i].key.kind = "node") => Owned(children[i].key.id)

\* C8: the parent property of a node constructed under a raw digest d is a
\* registered node whose sid is d if a node with that sid has been
\* registered (every instance of the heap has been), and is d otherwise.
C8_ParentResolves ==
    \A n \in Live(heap) :
        (heap[n].parent.kind = "bytes") =>
            LET d == heap[n].parent.b
                p == Parent(heap, all, n)
            IN  IF \E i \in 1..Len(heap) : heap[i].sid = Bytes(d)
                  THEN /\ p.kind = "node"
                       /\ p.id \in Live(heap)
                       /\ heap[p.id].sid = Bytes(d)
                       /\ \E i \in 1..Len(all) : all[i].val = p
                  ELSE p = Bytes(d)

\* the parent of a node constructed under a digest resolves to a node that
\* was registered after it
C8_Witness ==
    \E n \in Live(heap) :
        /\ heap[n].parent.kind = "bytes"
        /\ Parent(heap, all, n).kind = "node"
        /\ Parent(heap, all, n).id > n

\* C9: Node(story, parent) raises a ValueError for every story whose UTF-8
\* encoding is longer than 896 bytes, and constructs the node for every
\* story without a null character whose encoding is at most 896 bytes.
C9_ByteBound ==
    (result.op = "Node" /\ result.val.kind # "other") =>
        LET b == Utf8Encode(result.story)
        IN  /\ (Len(b) > STORY_SIZE) => IsValueError(result.raised)
            /\ (Len(b) <= STORY_SIZE /\ \A i \in 1..Len(b) : b[i] # ZeroByte) =>
                  result.raised = ""

\* C10: identify_block(b) raises nothing, whatever the bytes b are.
C10_NeverRaises == (result.op = "identify_block") => result.raised = ""

\* C15: Node(story, parent) raises TypeError and returns no node whenever
\* parent is not None, a Node or a bytes object of exactly 64 bytes.
C15_ParentChecked ==
    (/\ result.op = "Node"
     /\ Len(result.story) <= STORY_SIZE
     /\ \A i \in 1..Len(result.story) : result.story[i] # 0
     /\ ~(\/ result.val.kind \in {"none", "node"}
          \/ result.val.kind = "bytes" /\ Len(result.val.b) = DIGEST_SIZE)) =>
        result.raised = ErrParent /\ result.node = 0

\* C17: a from_bytes or identify_block call that fails or returns no node
\* leaves Node._all and Node._children as they were before the call.
C17_FailedDecodeRegistersNothing ==
    [][(/\ result'.op \in {"from_bytes", "identify_block"}
        /\ result'.node = 0) =>
           all' = all /\ children' = children]_vars

\* C18: the sid a node cached at its first read never changes, and it is
\* the hash of the node's current pid followed by its encoded story, also
\* after the node's bytes parent became resolvable.
C18_SidConsistent ==
    [][\A n \in Live(heap') :
          /\ heap'[n].sid.kind = "bytes"
          /\ heap'[n].sid.b = q_hash(Pid(heap', all', n) \o Utf8Encode(heap'[n].story))
          /\ (n <= Len(heap)) => heap'[n].sid = heap[n].sid]_vars

\* the pid of a node constructed under a digest is now read from the node
\* that was registered under that digest afterwards
C18_Witness ==
    \E n \in Live(heap) :
        /\ heap[n].parent.kind = "bytes"
        /\ Parent(heap, all, n).kind = "node"
        /\ Parent(heap, all, n).id > n
        /\ heap[n].sid.b = q_hash(heap[Parent(heap, all, n).id].sid.b
                                    \o Utf8Encode(heap[n].story))

\* C19: p.branch(s) returns a node whose parent is p (the registered node
\* equal to p) and whose story is s; a node equal to it is then in
\* p.children and a key of Node._all and Node._children; and the story, the
\* parent and the sid of p are what they were before the call.
C19_BranchFrame ==
    [][(result'.op = "branch") =>
          LET p == result'.self
              n == result'.node
              i == Find(heap', all', children', NodeRef(p))
          IN  /\ result'.raised = ""
              /\ n = Len(heap) + 1
              /\ n \in Live(heap')
              /\ heap'[n].parent = NodeRef(p)
              /\ PyEq(heap', all', Parent(heap', all', n), NodeRef(p))
              /\ heap'[n].story = result'.story
              /\ i # 0
              /\ \E m \in children'[i].set : PyEq(heap', all', NodeRef(m), NodeRef(n))
              /\ Find(heap', all', all', NodeRef(n)) # 0
              /\ Find(heap', all', children', NodeRef(n)) # 0
              /\ heap'[p].story = heap[p].story
              /\ heap'[p].parent = heap[p].parent
              /\ heap'[p].sid = heap[p].sid
              /\ Parent(heap', all', p) = Parent(heap, all, p)
              /\ p \in Live(heap')]_vars

\* a branch of a node that has an equal node registered after it
C19_Witness ==
    /\ result.op = "branch"
    /\ result.node # 0
    /\ \E q \in Live(heap) : q > result.self /\ q < result.node
                             /\ PyEq(heap, all, NodeRef(q), NodeRef(result.self))

\* the k-th 64-bit field of the first 32 bytes of the file f
HeaderField(f, k) ==
    LET bs == FileRead(f, Digits(Q_SIZE * (k - 1)), Q_SIZE)
        last == CHOOSE i \in 0..Len(bs) : /\ (i > 0) => bs[i] # Plain(0)
                                          /\ \A j \in (i + 1)..Len(bs) : bs[j] = Plain(0)
    IN  PyInt([i \in 1..last |-> bs[i][1]])

\* the four fields of the Store s
Fields(s) == <<s.stored, s.size, s.limit, s.previous>>

\* C11: close() on an open Store returns with the buffer closed and the
\* header at offset 0 of the file equal to (stored, size, limit, previous),
\* also for a Store constructed with the default arguments.
C11_CloseSavesHeader ==
    \A t \in DOMAIN threads :
        (threads[t].op = "close" /\ threads[t].pc = "idle" /\ store.closes = 1) =>
            /\ threads[t].raised = ""
            /\ store.closed
            /\ NatLess(Digits(OPT_SIZE - 1), disk[store.name].size)
            /\ \A k \in 1..4 : HeaderField(disk[store.name], k) = Fields(store)[k]

\* C13: open_store(name) creates a missing file and returns an open Store
\* with the default header (0, 16, 2^20, None); for a file that holds a
\* header it returns a Store with the four fields of the first 32 bytes.
C13_OpenStore ==
    [][(store.name = "" /\ store'.by = "open_store") =>
          IF ~disk[store'.name].exists
            THEN /\ disk'[store'.name].exists
                 /\ store'.made
                 /\ ~store'.closed
                 /\ Fields(store') = StoreDefaults
            ELSE NatLess(Digits(OPT_SIZE - 1), disk[store'.name].size) =>
                    /\ store'.made
                    /\ ~store'.closed
                    /\ \A k \in 1..4 :
                          Fields(store')[k] = HeaderField(disk[store'.name], k)]_vars

\* a thread waits for a lock another thread owns
Blocked(t) ==
    \/ /\ threads[t].pc \in {"close_buf_lock", "opt_save_lock", "seek_block_lock"}
       /\ store.buf_lock.owner \notin {0, t}
    \/ /\ threads[t].pc = "close_opt_lock"
       /\ store.opt_lock.owner \notin {0, t}

\* the thread t has written the header in close() and not yet returned
\* from self._buffer.close()
Closing(t) ==
    /\ threads[t].op = "close"
    /\ threads[t].raised = ""
    /\ threads[t].pc \in {"opt_save_unlock", "close_buffer", "close_exit_opt"}

\* C14: no deadlock: a thread that waits for a lock waits for a thread that
\* is not waiting; the header lock is only taken by the owner of the buffer
\* lock; and from the header write of close() to its closing of the buffer
\* the last access to the buffer is the one of the closing thread.
C14_NoDeadlockAtomicClose ==
    /\ \A t \in DOMAIN threads :
          Blocked(t) => \E u \in DOMAIN threads : /\ u # t
                                                    /\ threads[u].pc # "idle"
                                                    /\ ~Blocked(u)
    /\ store.opt_lock.owner # 0 => store.buf_lock.owner = store.opt_lock.owner
    /\ \A t \in DOMAIN threads : Closing(t) => store.last = t

\* a thread is about to close the buffer while another one waits for the
\* buffer lock to seek
C14_Witness ==
    \E t, u \in DOMAIN threads :
        /\ threads[t].pc = "close_buffer"
        /\ threads[u].pc \in {"seek_block_lock", "opt_save_lock"}
        /\ Blocked(u)

\* C16 as claimed: seek_block(i) on an open Store positions the buffer at
\* 32 + 1024 * i for every i >= 0 and leaves the four fields as they were.
C16_SeekBlockOffset ==
    [][\A t \in DOMAIN threads :
          (/\ threads[t].pc = "seek_block_seek"
           /\ threads'[t].pc = "seek_block_unlock"
           /\ ~store.closed) =>
              /\ threads'[t].raised = ""
              /\ store'.pos = NatMulAdd(threads[t].arg.b, 1024, 32)
              /\ Fields(store') = Fields(store)]_vars

\* C16 as amended: the same for every i with 0 <= i < 2^53, the indexes
\* whose offset is below 2^63.
C16_SeekBlockOffsetBelow2p53 ==
    [][\A t \in DOMAIN threads :
          (/\ threads[t].pc = "seek_block_seek"
           /\ threads'[t].pc = "seek_block_unlock"
           /\ ~store.closed
           /\ NatLess(threads[t].arg.b, Pow53)) =>
              /\ threads'[t].raised = ""
              /\ store'.pos = NatMulAdd(threads[t].arg.b, 1024, 32)
              /\ Fields(store') = Fields(store)]_vars

\* a thread has sought to the block 2^53 - 1 of a Store with a header
C16_Witness ==
    \E t \in DOMAIN threads :
        /\ threads[t].op = "seek_block"
        /\ threads[t].pc = "seek_block_unlock"
        /\ threads[t].raised = ""
        /\ threads[t].arg = PyInt(LastIndex)
        /\ store.pos = [i \in 1..8 |-> IF i = 1 THEN 32 ELSE IF i = 2 THEN 252
                                       ELSE IF i = 8 THEN 127 ELSE 255]

(***************************************************************************)
(* The listener: pyble/server/tunnel.py.  listener.lock is self._lock,     *)
(* listener.running is self._running, listener.thread is self._thread      *)
(* ("None" or "Thread"), listener.loop is the statement the dispatch       *)
(* thread is at ("none" while there is no such thread), listener.value is  *)
(* what its last self.running returned, listener.pending counts the        *)
(* connections that wait to be accepted and listener.handled the handler   *)
(* threads that were spawned.                                              *)
(***************************************************************************)

\* the threads of the application, the connections that arrive at most
ListenerThreads == 2
MaxConns == 2

\* the owner of self._lock that stands for the dispatch thread
LoopThread == ListenerThreads + 1

\* the backlogs a Listener is constructed with: the default and an int
Backlogs == {None, PyInt(Digits(1))}

ErrBacklog == "TypeError: 'NoneType' object cannot be interpreted as an integer"
ErrStarted == "Error: listener already started"
ErrNoThread == "AttributeError: 'NoneType' object has no attribute 'join'"

InitListener ==
    /\ heap = <<>>
    /\ all = <<>>
    /\ children = <<>>
    /\ held = {}
    /\ result = NoResult
    /\ disk = <<>>
    /\ store = NoStore
    /\ listener = NoListener
    /\ threads = [t \in 1..ListenerThreads |-> NoThread]

\* tunnel.py:19-26  Listener(port, backlog)
NewListener(backlog) ==
    /\ ~listener.made
    /\ listener.raised = ""
    /\ listener' = IF backlog.kind # "int"
                     THEN [listener EXCEPT !.raised = ErrBacklog]
                     ELSE [listener EXCEPT !.made = TRUE]
    /\ UNCHANGED threads

\* a peer connects to the port the socket listens on
Connect ==
    /\ listener.made
    /\ listener.pending + listener.handled < MaxConns
    /\ listener' = [listener EXCEPT !.pending = @ + 1]
    /\ UNCHANGED threads

\* the thread t calls op of the listener; pc is its first step
ListenerCall(t, op, pc) ==
    /\ listener.made
    /\ threads[t].pc = "idle"
    /\ threads[t].calls < MaxCalls
    /\ Goto(t, [op |-> op, pc |-> pc, arg |-> None, b |-> <<>>, raised |-> "",
                calls |-> threads[t].calls + 1])
    /\ UNCHANGED listener

\* with self._lock: of running (tunnel.py:31), start (tunnel.py:36) and stop
\* (tunnel.py:49)
ListenerLock(t, pc, next) ==
    /\ threads[t].pc = pc
    /\ CanAcquire(listener.lock, t)
    /\ listener' = [listener EXCEPT !.lock = Acquire(@, t)]
    /\ Goto(t, [threads[t] EXCEPT !.pc = next])

\* the end of the with block: the lock is released and the call returns
\* or raises
ListenerExit(t, pc) ==
    /\ threads[t].pc = pc
    /\ listener' = [listener EXCEPT !.lock = Release_(@)]
    /\ Goto(t, [threads[t] EXCEPT !.pc = "idle"])

\* tunnel.py:32  return self._running and (self._thread is not None)
running_read(t) ==
    /\ threads[t].pc = "running_read"
    /\ Goto(t, [threads[t] EXCEPT
                  !.pc = "running_exit",
                  !.b = <<listener.running /\ listener.thread # "None">>])
    /\ UNCHANGED listener

\* tunnel.py:37-38  if self._thread is not None: raise Error(...)
start_check(t) ==
    /\ threads[t].pc = "start_check"
    /\ Goto(t, IF listener.thread # "None"
                 THEN [threads[t] EXCEPT !.pc = "start_exit", !.raised = ErrStarted]
                 ELSE [threads[t] EXCEPT !.pc = "start_set"])
    /\ UNCHANGED listener

\* tunnel.py:39  self._running = True
start_set(t) ==
    /\ threads[t].pc = "start_set"
    /\ listener' = [listener EXCEPT !.running = TRUE]
    /\ Goto(t, [threads[t] EXCEPT !.pc = "start_thread"])

\* tunnel.py:40-41  self._thread = threading.Thread(target=self._loop, ...)
\*                  self._thread.start()
start_thread(t) ==
    /\ threads[t].pc = "start_thread"
    /\ listener' = [listener EXCEPT !.thread = "Thread", !.loop = "loop_lock"]
    /\ Goto(t, [threads[t] EXCEPT !.pc = "start_exit"])

\* tunnel.py:45  while self.running:  (tunnel.py:31  with self._lock:)
loop_lock ==
    /\ listener.loop = "loop_lock"
    /\ CanAcquire(listener.lock, LoopThread)
    /\ listener' = [listener EXCEPT !.lock = Acquire(@, LoopThread),
                                    !.loop = "loop_read"]
    /\ UNCHANGED threads

\* tunnel.py:32  return self._running and (self._thread is not None)
loop_read ==
    /\ listener.loop = "loop_read"
    /\ listener' = [listener EXCEPT
                      !.value = listener.running /\ listener.thread # "None",
                      !.loop = "loop_unlock"]
    /\ UNCHANGED threads

\* the lock is released, and tunnel.py:45 goes on with the loop body or
\* leaves the loop: the thread ends
loop_unlock ==
    /\ listener.loop = "loop_unlock"
    /\ listener' = [listener EXCEPT
                      !.lock = Release_(@),
                      !.loop = IF listener.value THEN "accept" ELSE "exited"]
    /\ UNCHANGED threads

\* tunnel.py:46  self._sock.accept(), which waits for a connection
loop_accept ==
    /\ listener.loop = "accept"
    /\ listener.pending > 0
    /\ listener' = [listener EXCEPT !.pending = @ - 1, !.loop = "spawn"]
    /\ UNCHANGED threads

\* tunnel.py:46  threading.Thread(target=handler, args=(...,)).start()
loop_spawn ==
    /\ listener.loop = "spawn"
    /\ listener' = [listener EXCEPT !.handled = @ + 1, !.loop = "loop_lock"]
    /\ UNCHANGED threads

\* tunnel.py:50  self._running = False
stop_set(t) ==
    /\ threads[t].pc = "stop_set"
    /\ listener' = [listener EXCEPT !.running = FALSE]
    /\ Goto(t, [threads[t] EXCEPT !.pc = "stop_join"])

\* tunnel.py:51-52  self._thread.join(), which waits for the dispatch thread
\* to end, then self._thread = None
stop_join(t) ==
    /\ threads[t].pc = "stop_join"
    /\ IF listener.thread = "None"
         THEN /\ Goto(t, [threads[t] EXCEPT !.pc = "stop_exit", !.raised = ErrNoThread])
              /\ UNCHANGED listener
         ELSE /\ listener.loop = "exited"
              /\ listener' = [listener EXCEPT !.thread = "None"]
              /\ Goto(t, [threads[t] EXCEPT !.pc = "stop_exit"])

\* a step of the application thread t inside a call
ListenerStep(t) ==
    /\ \/ ListenerLock(t, "running_lock", "running_read") \/ running_read(t) \/ ListenerExit(t, "running_exit")
       \/ ListenerLock(t, "start_lock", "start_check") \/ start_check(t) \/ start_set(t) \/ start_thread(t)
       \/ ListenerExit(t, "start_exit")
       \/ ListenerLock(t, "stop_lock", "stop_set") \/ stop_set(t) \/ stop_join(t) \/ ListenerExit(t, "stop_exit")
    /\ UNCHANGED nodeVars
    /\ UNCHANGED <<disk, store>>

\* a step of the dispatch thread
LoopStep ==
    /\ loop_lock \/ loop_read \/ loop_unlock \/ loop_accept \/ loop_spawn
    /\ UNCHANGED nodeVars
    /\ UNCHANGED <<disk, store>>

NextListener ==
    \/ (\E b \in Backlogs : NewListener(b)) /\ UNCHANGED nodeVars /\ UNCHANGED <<disk, store>>
    \/ Connect /\ UNCHANGED nodeVars /\ UNCHANGED <<disk, store>>
    \/ (\E t \in DOMAIN threads : ListenerCall(t, "start", "start_lock")) /\ UNCHANGED nodeVars /\ UNCHANGED <<disk, store>>
    \/ (\E t \in DOMAIN threads : ListenerCall(t, "stop", "stop_lock")) /\ UNCHANGED nodeVars /\ UNCHANGED <<disk, store>>
    \/ (\E t \in DOMAIN threads : ListenerCall(t, "running", "running_lock")) /\ UNCHANGED nodeVars /\ UNCHANGED <<disk, store>>
    \/ (\E t \in DOMAIN threads : ListenerLock(t, "running_lock", "running_read")) /\ UNCHANGED nodeVars /\ UNCHANGED <<disk, store>>
    \/ (\E t \in DOMAIN threads : running_read(t)) /\ UNCHANGED nodeVars /\ UNCHANGED <<disk, store>>
    \/ (\E t \in DOMAIN threads : ListenerExit(t, "running_exit")) /\ UNCHANGED nodeVars /\ UNCHANGED <<disk, store>>
    \/ (\E t \in DOMAIN threads : ListenerLock(t, "start_lock", "start_check")) /\ UNCHANGED nodeVars /\ UNCHANGED <<disk, store>>
    \/ (\E t \in DOMAIN threads : start_check(t)) /\ UNCHANGED nodeVars /\ UNCHANGED <<disk, store>>
    \/ (\E t \in DOMAIN threads : start_set(t)) /\ UNCHANGED nodeVars /\ UNCHANGED <<disk, store>>
    \/ (\E t \in DOMAIN threads : start_thread(t)) /\ UNCHANGED nodeVars /\ UNCHANGED <<disk, store>>
    \/ (\E t \in DOMAIN threads : ListenerExit(t, "start_exit")) /\ UNCHANGED nodeVars /\ UNCHANGED <<disk, store>>
    \/ (\E t \in DOMAIN threads : ListenerLock(t, "stop_lock", "stop_set")) /\ UNCHANGED nodeVars /\ UNCHANGED <<disk, store>>
    \/ (\E t \in DOMAIN threads : stop_set(t)) /\ UNCHANGED nodeVars /\ UNCHANGED <<disk, store>>
    \/ (\E t \in DOMAIN threads : stop_join(t)) /\ UNCHANGED nodeVars /\ UNCHANGED <<disk, store>>
    \/ (\E t \in DOMAIN threads : ListenerExit(t, "stop_exit")) /\ UNCHANGED nodeVars /\ UNCHANGED <<disk, store>>
    \/ loop_lock /\ UNCHANGED nodeVars /\ UNCHANGED <<disk, store>>
    \/ loop_read /\ UNCHANGED nodeVars /\ UNCHANGED <<disk, store>>
    \/ loop_unlock /\ UNCHANGED nodeVars /\ UNCHANGED <<disk, store>>
    \/ loop_accept /\ UNCHANGED nodeVars /\ UNCHANGED <<disk, store>>
    \/ loop_spawn /\ UNCHANGED nodeVars /\ UNCHANGED <<disk, store>>

\* every thread that can take a step is scheduled again and again, also
\* one that competes for the lock; nothing makes the application call or a
\* peer connect
ListenerFairness ==
    /\ \A t \in 1..ListenerThreads : SF_vars(ListenerStep(t))
    /\ SF_vars(LoopStep)

SpecListener == InitListener /\ [][NextListener]_vars /\ ListenerFairness

\* the thread t is inside a call of stop() on a started listener
StopCalled(t) ==
    /\ threads[t].op = "stop"
    /\ threads[t].pc # "idle"
    /\ listener.thread = "Thread"

\* stop() has returned to the thread t: the dispatch thread has ended and
\* running is False
StopReturned(t) ==
    /\ threads[t].op = "stop"
    /\ threads[t].pc = "idle"
    /\ threads[t].raised = ""
    /\ listener.loop = "exited"
    /\ ~(listener.running /\ listener.thread # "None")

\* C12: after start(handler), every call of stop() eventually returns, with
\* the dispatch thread terminated and running == False, whether or not a
\* connection arrives.
C12_StopReturns ==
    \A t \in 1..ListenerThreads : StopCalled(t) ~> StopReturned(t)

(***************************************************************************)
(* Node.__init__ and branch called by several threads: every dictionary    *)
(* read or write of node.py:44-58 is one step of its thread, and the steps *)
(* of the threads interleave.  A thread keeps the instance it constructs   *)
(* in self, its parent argument in parent and the two membership tests of  *)
(* node.py:45-46 in not_pis and not_pic.  The application keeps every node *)
(* that was returned to it.                                                *)
(***************************************************************************)

\* the threads that construct nodes
ConcThreads == 2

NoConcThread == [op |-> "", pc |-> "idle", self |-> 0, parent |-> None,
                 not_pis |-> FALSE, not_pic |-> FALSE, raised |-> "", calls |-> 0]

\* the parents the threads construct nodes under
ConcValues == {None, Other, Bytes(DigestX)} \cup {NodeRef(i) : i \in held}

InitConc ==
    /\ heap = <<>>
    /\ all = <<>>
    /\ children = <<>>
    /\ held = {}
    /\ result = NoResult
    /\ disk = <<>>
    /\ store = NoStore
    /\ listener = NoListener
    /\ threads = [t \in 1..ConcThreads |-> NoConcThread]

\* node.py:27-34  the checks of the arguments: what __init__ raises, "" when
\* it goes on
Validate(story, parent) ==
    IF Len(story) > STORY_SIZE THEN ErrStoryLong
    ELSE IF \E i \in 1..Len(story) : story[i] = 0 THEN ErrNullByte
    ELSE IF parent.kind \notin {"none", "node", "bytes"} THEN ErrParent
    ELSE ""

\* node.py:27-44  the thread t calls Node(story, parent), as op: the checks,
\* then the new instance with its fields and empty caches
Construct(t, op, story, parent) ==
    LET Enter(e, th) ==
            IF e # ""
              THEN /\ heap' = heap
                   /\ Goto(t, [th EXCEPT !.raised = e])
              ELSE /\ heap' = Append(heap, [story |-> story, parent |-> parent,
                                            sid |-> None, bytes |-> None, live |-> TRUE])
                   /\ Goto(t, [th EXCEPT !.pc = IF parent.kind = "none" THEN "set_all"
                                                ELSE "read_pis",
                                         !.self = Len(heap) + 1,
                                         !.parent = parent])
    IN  /\ threads[t].pc = "idle"
        /\ threads[t].calls < MaxCalls
        /\ Len(heap) < MaxNodes
        /\ Enter(Validate(story, parent),
                 [NoConcThread EXCEPT !.op = op, !.calls = threads[t].calls + 1])
        /\ UNCHANGED <<all, children, held>>

\* node.py:167  p.branch(story): node = self.__class__(story, self)
ConcBranch(t, p, story) == Construct(t, "branch", story, NodeRef(p))

\* the first read of self.sid computes and stores it (node.py:102)
CacheSid(h, a, n) ==
    IF h[n].sid.kind # "none" THEN h ELSE [h EXCEPT ![n].sid = Bytes(Sid(h, a, n))]

\* d[key] = WeakSet() on _children: the entry of an equal key gets the new,
\* empty set
SetWeakSet(h, a, c, key) ==
    LET Set(i) == IF i = 0 THEN Append(c, [key |-> key, set |-> {}])
                  ELSE [c EXCEPT ![i].set = {}]
    IN  Set(Find(h, a, c, key))

\* node.py:45  not_pis = parent not in self._all
init_not_pis(t) ==
    /\ threads[t].pc = "read_pis"
    /\ Goto(t, [threads[t] EXCEPT
                  !.not_pis = Find(heap, all, all, threads[t].parent) = 0,
                  !.pc = "read_pic"])
    /\ UNCHANGED <<heap, all, children, held>>

\* node.py:46-50  not_pic = parent not in self._children, and the branch on
\* the two tests: SyncError when they differ
init_not_pic(t) ==
    LET Test(th, not_pic) ==
            IF th.not_pis /\ not_pic
              THEN /\ Goto(t, [th EXCEPT !.not_pic = not_pic, !.pc = "set_all_parent"])
                   /\ heap' = heap
            ELSE IF th.not_pis # not_pic
              THEN /\ Goto(t, [th EXCEPT !.not_pic = not_pic, !.pc = "idle",
                                         !.raised = ErrSync])
                   /\ heap' = [heap EXCEPT ![th.self].live = FALSE]
            ELSE /\ Goto(t, [th EXCEPT !.not_pic = not_pic, !.pc = "add_child"])
                 /\ heap' = heap
    IN  /\ threads[t].pc = "read_pic"
        /\ Test(threads[t], Find(heap, all, children, threads[t].parent) = 0)
        /\ UNCHANGED <<all, children, held>>

\* node.py:48  self._all[parent] = parent
init_set_all_parent(t) ==
    LET Set(parent, i) ==
            all' = IF i = 0 THEN Append(all, [key |-> parent, val |-> parent])
                   ELSE [all EXCEPT ![i].val = parent]
    IN  /\ threads[t].pc = "set_all_parent"
        /\ Set(threads[t].parent, Find(heap, all, all, threads[t].parent))
        /\ Goto(t, [threads[t] EXCEPT !.pc = "set_children_parent"])
        /\ UNCHANGED <<heap, children, held>>

\* node.py:49  self._children[parent] = WeakSet()
init_set_children_parent(t) ==
    /\ threads[t].pc = "set_children_parent"
    /\ children' = SetWeakSet(heap, all, children, threads[t].parent)
    /\ Goto(t, [threads[t] EXCEPT !.pc = "add_child"])
    /\ UNCHANGED <<heap, all, held>>

\* node.py:53  self._children[parent].add(self)
init_add_child(t) ==
    LET Add(h, n) == /\ heap' = h
                     /\ children' = AddToParent(h, all, children, n)
    IN  /\ threads[t].pc = "add_child"
        /\ Add(CacheSid(heap, all, threads[t].self), threads[t].self)
        /\ Goto(t, [threads[t] EXCEPT !.pc = "set_all"])
        /\ UNCHANGED <<all, held>>

\* node.py:56  self._all[self] = self
init_set_all(t) ==
    LET Set(h, n) == /\ heap' = h
                     /\ all' = SetAll(h, all, n)
    IN  /\ threads[t].pc = "set_all"
        /\ Set(CacheSid(heap, all, threads[t].self), threads[t].self)
        /\ Goto(t, [threads[t] EXCEPT !.pc = "read_self"])
        /\ UNCHANGED <<children, held>>

\* node.py:57  if self not in self._children:
init_self_in_children(t) ==
    /\ threads[t].pc = "read_self"
    /\ Goto(t, [threads[t] EXCEPT
                  !.pc = IF Find(heap, all, children, NodeRef(threads[t].self)) = 0
                           THEN "set_children_self" ELSE "return"])
    /\ UNCHANGED <<heap, all, children, held>>

\* node.py:58  self._children[self] = WeakSet()
init_set_children_self(t) ==
    /\ threads[t].pc = "set_children_self"
    /\ children' = SetWeakSet(heap, all, children, NodeRef(threads[t].self))
    /\ Goto(t, [threads[t] EXCEPT !.pc = "return"])
    /\ UNCHANGED <<heap, all, held>>

\* __init__ returns: to the application, or to branch
init_return(t) ==
    /\ threads[t].pc = "return"
    /\ IF threads[t].op = "branch"
         THEN /\ Goto(t, [threads[t] EXCEPT !.pc = "branch_add"])
              /\ held' = held
         ELSE /\ Goto(t, [threads[t] EXCEPT !.pc = "idle"])
              /\ held' = held \cup {threads[t].self}
    /\ UNCHANGED <<heap, all, children>>

\* node.py:168-169  self._children[self].add(node); return node
branch_add(t) ==
    LET Add(n, i) == children' = [children EXCEPT
                                    ![i].set = WeakSetAdd(heap, all, @, n)]
    IN  /\ threads[t].pc = "branch_add"
        /\ Add(threads[t].self, Find(heap, all, children, threads[t].parent))
        /\ Goto(t, [threads[t] EXCEPT !.pc = "idle"])
        /\ held' = held \cup {threads[t].self}
        /\ UNCHANGED <<heap, all>>

NextConc ==
    \/ (\E t \in DOMAIN threads, a \in ShortStories \X ConcValues : Construct(t, "Node", a[1], a[2]))
            /\ UNCHANGED <<result, disk, store, listener>>
    \/ (\E t \in DOMAIN threads, p \in held, s \in ShortStories : ConcBranch(t, p, s))
            /\ UNCHANGED <<result, disk, store, listener>>
    \/ (\E t \in DOMAIN threads : init_not_pis(t)) /\ UNCHANGED <<result, disk, store, listener>>
    \/ (\E t \in DOMAIN threads : init_not_pic(t)) /\ UNCHANGED <<result, disk, store, listener>>
    \/ (\E t \in DOMAIN threads : init_set_all_parent(t))
            /\ UNCHANGED <<result, disk, store, listener>>
    \/ (\E t \in DOMAIN threads : init_set_children_parent(t))
            /\ UNCHANGED <<result, disk, store, listener>>
    \/ (\E t \in DOMAIN threads : init_add_child(t)) /\ UNCHANGED <<result, disk, store, listener>>
    \/ (\E t \in DOMAIN threads : init_set_all(t)) /\ UNCHANGED <<result, disk, store, listener>>
    \/ (\E t \in DOMAIN threads : init_self_in_children(t))
            /\ UNCHANGED <<result, disk, store, listener>>
    \/ (\E t \in DOMAIN threads : init_set_children_self(t))
            /\ UNCHANGED <<result, disk, store, listener>>
    \/ (\E t \in DOMAIN threads : init_return(t)) /\ UNCHANGED <<result, disk, store, listener>>
    \/ (\E t \in DOMAIN threads : branch_add(t)) /\ UNCHANGED <<result, disk, store, listener>>

SpecConc == InitConc /\ [][NextConc]_vars

\* C20: with two threads constructing nodes, no construction raises
\* SyncError, and no member of a child set is lost from it (the application
\* keeps every node, so none is collected).
C20_NoSyncErrorNoChildLost ==
    [][/\ \A t \in DOMAIN threads : threads'[t].raised # ErrSync
       /\ \A i \in 1..Len(children) : children[i].set \subseteq children'[i].set]_vars

====
